---- MODULE Spec2Model ----
(***************************************************************************)
(* Hippo Exchange: the borrow-request lifecycle and the item-availability  *)
(* state machine of the Firestore-backed web API (Program.cs, FsItems,     *)
(* FsRequests).                                                            *)
(*                                                                         *)
(* Spec     : every HTTP handler runs to completion before the next call   *)
(*            starts (calls arrive one after the other).                   *)
(* SpecConc : handlers are split at their awaits on the document store, so *)
(*            the reads and writes of concurrent calls interleave.         *)
(***************************************************************************)
EXTENDS Integers, Sequences, FiniteSets, TLC

VARIABLES items,   \* the `items` collection: document id -> document
          reqs,    \* the `requests` collection: sequence of documents, id = index
          last,    \* the observed call: its arguments and its HTTP response
          edits,   \* number of create and update calls so far
          calls    \* in-flight calls of SpecConc: slot -> position and locals

vars == <<items, reqs, last, edits, calls>>

----------------------------------------------------------------------------
(* Bounds of the model *)

MaxRequests == 2     \* documents the requests collection can hold
MaxTime == 1         \* timestamps are 1..MaxTime
MaxEdits == 1        \* POST /api/items and PUT /api/items/{id} calls in a run
MaxCalls == 2        \* concurrent call slots of SpecConc

(* Value domains *)

Null == "null"                       \* a null string / null DocumentReference
NoTime == 0                          \* a null DateTime?
Times == 1..MaxTime
OptTimes == {NoTime} \cup Times
BodyTimes == {NoTime, 1}             \* the dates an item body carries
Users == {"u1", "u2", "u3"}
ItemIds == {"i1"}
Names == {"n1", "n2"}
ReqIds == 1..MaxRequests
NoReq == 0
Slots == 1..MaxCalls

(* Strings a caller can send where an id or a name is expected *)
UserInputs == Users \cup {""}
ItemIdInputs == ItemIds \cup {"", " i1"}
NameInputs == Names \cup {""}
OwnerInputs == {"", "u1", "u2"}
LenderInputs == {"", "u2"}

----------------------------------------------------------------------------
(* string.IsNullOrWhiteSpace and string.Trim on the strings of the model *)

IsNullOrWhiteSpace(s) == s \in {Null, "", " "}

Trim(s) == CASE s = " i1" -> "i1"
             [] s = " "   -> ""
             [] OTHER     -> s

(* FsItems.CreateProfileReference: null for a blank id, else a reference   *)
(* to profiles/<trimmed id>; a reference is modelled by its id.            *)
CreateProfileReference(profileId) ==
    IF IsNullOrWhiteSpace(profileId) THEN Null ELSE Trim(profileId)

----------------------------------------------------------------------------
(* Documents *)

(* InventoryItem; `exists` is FALSE for an id with no document. picture,   *)
(* location and condition are handled exactly like name and are            *)
(* represented by it.                                                      *)
NoItem == [exists |-> FALSE, name |-> "", owner |-> Null, isLent |-> FALSE,
           borrower |-> Null, borrowedOn |-> NoTime, dueAt |-> NoTime]

(* InventoryItemRequest: the body of POST /api/items and PUT /api/items/id *)
ItemRequests ==
    [itemId : ItemIdInputs, name : NameInputs, ownerId : OwnerInputs,
     isLent : BOOLEAN, borrowerId : LenderInputs,
     borrowedOn : BodyTimes, dueAt : BodyTimes]

(* PUT takes the id from the route and never reads the body's itemId *)
PutRequests == {item \in ItemRequests : item.itemId = ""}

(* BorrowRequestEntity; the document id is its index in reqs. createdAt is *)
(* written once by the constructor and read by no handler; it is left out. *)
Request(itemId, itemName, ownerId, borrowerId, dueAt, status) ==
    [itemId |-> itemId, itemName |-> itemName, ownerId |-> ownerId,
     borrowerId |-> borrowerId, dueAt |-> dueAt, status |-> status]

NoRequest == Request("", "", "", "", NoTime, "none")

NoBody == [itemId |-> "", name |-> "", ownerId |-> "", isLent |-> FALSE,
           borrowerId |-> "", borrowedOn |-> NoTime, dueAt |-> NoTime]

(* No call observed yet. An observed call holds its route arguments, its   *)
(* body, the document of its item as stored when the call arrived, its     *)
(* outcome and, for the list routes, the ids of the documents returned.    *)
NoCall == [op |-> "none", outcome |-> "none", detail |-> "", item |-> "",
           req |-> NoReq, borrower |-> "", dueAt |-> NoTime,
           accepted |-> FALSE, owner |-> "", body |-> NoBody, before |-> NoItem,
           itemsListed |-> {}, reqsListed |-> {}]

(* The response of a call: HTTP outcome and message (or status) returned *)
Resp(call, outcome, detail) ==
    [call EXCEPT !.outcome = outcome, !.detail = detail]

(* A run is observed up to the response of its last call: a call either    *)
(* goes unrecorded and the run goes on, or its response is recorded in     *)
(* `last` and ends the run.                                                *)
Observed(response) == {NoCall, response}

----------------------------------------------------------------------------
(* FsItems *)

CreatePayloadAsGiven(item) ==
    [exists |-> TRUE,
     name |-> item.name,
     owner |-> CreateProfileReference(item.ownerId),
     isLent |-> item.isLent,
     borrower |-> CreateProfileReference(item.borrowerId),
     borrowedOn |-> item.borrowedOn,
     dueAt |-> item.dueAt]

(* FsItems.CreateAsync: the payload written for a request whose owner      *)
(* reference is not null                                                   *)
CreatePayload(item) ==
    LET borrowerRef == CreateProfileReference(item.borrowerId)
        lent == item.isLent /\ borrowerRef # Null
    IN [exists |-> TRUE,
        name |-> item.name,
        owner |-> CreateProfileReference(item.ownerId),
        isLent |-> lent,
        borrower |-> IF lent THEN borrowerRef ELSE Null,
        borrowedOn |-> IF lent THEN item.borrowedOn ELSE NoTime,
        dueAt |-> IF lent THEN item.dueAt ELSE NoTime]

(* DocumentReference.SetAsync(doc) and SetAsync(doc, MergeAll) of a whole  *)
(* InventoryItem: every property of the object, null ones included, is     *)
(* written, and the document is created when it does not exist.            *)
SetDocument(store, itemId, doc) == [store EXCEPT ![itemId] = doc]

(* FsItems.ReadAsync: null (NoItem) for a blank id or a missing document   *)
ReadAsync(store, itemId) ==
    IF IsNullOrWhiteSpace(itemId) \/ itemId \notin ItemIds
    THEN NoItem ELSE store[itemId]

UpdateAsyncFirstLoanWins(store, itemId, doc) ==
    IF IsNullOrWhiteSpace(itemId) THEN store
    ELSE IF store[itemId].exists /\ store[itemId].isLent /\ doc.isLent
    THEN store
    ELSE [store EXCEPT ![itemId] = doc]

(* FsItems.UpdateAsync: the store after the call; the call returns false   *)
(* and writes nothing for a blank id                                       *)
UpdateAsync(store, itemId, doc) ==
    IF IsNullOrWhiteSpace(itemId) THEN store ELSE SetDocument(store, itemId, doc)

(* FsItems.DeleteAsync: the store after the call and the value returned    *)
DeleteAsync(store, itemId) ==
    IF IsNullOrWhiteSpace(itemId)
    THEN [store |-> store, ok |-> FALSE]
    ELSE [store |-> IF itemId \in ItemIds
                    THEN [store EXCEPT ![itemId] = NoItem] ELSE store,
          ok |-> TRUE]

ReturnUpdatesKeepBorrower(doc) ==
    [doc EXCEPT !.isLent = FALSE, !.borrowedOn = NoTime, !.dueAt = NoTime]

(* FsItems.ReturnItemAsync, the write: isLent := false and the three       *)
(* borrow fields deleted from the document                                 *)
ReturnUpdates(doc) ==
    [doc EXCEPT !.isLent = FALSE, !.borrower = Null,
                !.borrowedOn = NoTime, !.dueAt = NoTime]

(* FsItems.ReturnItemAsync: the store after the call and the value returned *)
ReturnItemAsync(store, itemId) ==
    IF IsNullOrWhiteSpace(itemId) \/ itemId \notin ItemIds
    THEN [store |-> store, ok |-> FALSE]
    ELSE IF ~store[itemId].exists
    THEN [store |-> store, ok |-> FALSE]
    ELSE [store |-> [store EXCEPT ![itemId] = ReturnUpdates(@)], ok |-> TRUE]

(* FsItems.ListByBorrowerAsync: the documents whose borrowerId field is    *)
(* the reference to the profile, and those (written before references      *)
(* were used) whose field is the id itself; nothing for a blank id         *)
ListByBorrowerAsync(store, borrowerId) ==
    IF IsNullOrWhiteSpace(borrowerId) THEN {}
    ELSE {i \in ItemIds :
             /\ store[i].exists
             /\ store[i].borrower # Null
             /\ \/ store[i].borrower = CreateProfileReference(borrowerId)
                \/ store[i].borrower = borrowerId}

(* Guid.NewGuid(): an id no document has *)
FreshItemIds(store) == {i \in ItemIds : ~store[i].exists}

----------------------------------------------------------------------------
(* FsRequests *)

(* FsRequests.ReadAsync: null for a blank id or a missing document *)
HasRequest(store, requestId) == requestId \in 1..Len(store)

(* FsRequests.CreateAsync: a new document under a fresh id *)
RequestsCreateAsync(store, entity) == Append(store, entity)

ListForOwnerAsyncAnyStatus(store, ownerId) ==
    IF IsNullOrWhiteSpace(ownerId) THEN {}
    ELSE {r \in 1..Len(store) : store[r].ownerId = ownerId}

(* FsRequests.ListForOwnerAsync: the query on ownerId and status *)
ListForOwnerAsync(store, ownerId) ==
    IF IsNullOrWhiteSpace(ownerId) THEN {}
    ELSE {r \in 1..Len(store) :
             store[r].ownerId = ownerId /\ store[r].status = "pending"}

(* FsRequests.UpdateStatusAsync: patches the status field only, whatever   *)
(* the stored status is                                                    *)
UpdateStatusAsync(store, id, status) == [store EXCEPT ![id].status = status]

----------------------------------------------------------------------------
(* The checks of the handlers. Each returns the response that ends the     *)
(* call, or Proceed when the handler goes on.                              *)

Proceed == [outcome |-> "proceed", detail |-> ""]
Fail(outcome, detail) == [outcome |-> outcome, detail |-> detail]

BorrowChecksNoLentCheck(borrowerId, item) ==
    IF IsNullOrWhiteSpace(borrowerId)
    THEN Fail("BadRequest", "BorrowerId is required.")
    ELSE IF ~item.exists THEN Fail("NotFound", "")
    ELSE Proceed

(* POST /api/items/{itemId}/borrow, lines 303-317 *)
BorrowChecks(borrowerId, item) ==
    IF IsNullOrWhiteSpace(borrowerId)
    THEN Fail("BadRequest", "BorrowerId is required.")
    ELSE IF ~item.exists THEN Fail("NotFound", "")
    ELSE IF item.isLent THEN Fail("Conflict", "Item is already borrowed.")
    ELSE Proceed

(* item.OwnerRef?.Id ?? string.Empty *)
OwnerIdOf(item) == IF item.owner = Null THEN "" ELSE item.owner

SubmitChecksLentFirst(itemId, borrowerId, item) ==
    IF IsNullOrWhiteSpace(itemId) \/ IsNullOrWhiteSpace(borrowerId)
    THEN Fail("BadRequest", "ItemId and BorrowerId are required.")
    ELSE IF ~item.exists THEN Fail("NotFound", "Item not found.")
    ELSE IF item.isLent THEN Fail("Conflict", "Item is currently loaned.")
    ELSE IF IsNullOrWhiteSpace(OwnerIdOf(item))
    THEN Fail("BadRequest", "Item has no owner.")
    ELSE IF OwnerIdOf(item) = borrowerId
    THEN Fail("BadRequest", "You cannot request your own item.")
    ELSE Proceed

SubmitChecksNoItemCheck(itemId, borrowerId, item) ==
    IF IsNullOrWhiteSpace(itemId) \/ IsNullOrWhiteSpace(borrowerId)
    THEN Fail("BadRequest", "ItemId and BorrowerId are required.")
    ELSE IF IsNullOrWhiteSpace(OwnerIdOf(item))
    THEN Fail("BadRequest", "Item has no owner.")
    ELSE IF OwnerIdOf(item) = borrowerId
    THEN Fail("BadRequest", "You cannot request your own item.")
    ELSE IF item.isLent THEN Fail("Conflict", "Item is currently loaned.")
    ELSE Proceed

SubmitChecksNoLentCheck(itemId, borrowerId, item) ==
    IF IsNullOrWhiteSpace(itemId) \/ IsNullOrWhiteSpace(borrowerId)
    THEN Fail("BadRequest", "ItemId and BorrowerId are required.")
    ELSE IF ~item.exists THEN Fail("NotFound", "Item not found.")
    ELSE IF IsNullOrWhiteSpace(OwnerIdOf(item))
    THEN Fail("BadRequest", "Item has no owner.")
    ELSE IF OwnerIdOf(item) = borrowerId
    THEN Fail("BadRequest", "You cannot request your own item.")
    ELSE Proceed

(* POST /api/requests, lines 368-381 *)
SubmitChecks(itemId, borrowerId, item) ==
    IF IsNullOrWhiteSpace(itemId) \/ IsNullOrWhiteSpace(borrowerId)
    THEN Fail("BadRequest", "ItemId and BorrowerId are required.")
    ELSE IF ~item.exists THEN Fail("NotFound", "Item not found.")
    ELSE IF IsNullOrWhiteSpace(OwnerIdOf(item))
    THEN Fail("BadRequest", "Item has no owner.")
    ELSE IF OwnerIdOf(item) = borrowerId
    THEN Fail("BadRequest", "You cannot request your own item.")
    ELSE IF item.isLent THEN Fail("Conflict", "Item is currently loaned.")
    ELSE Proceed

RespondRequestChecksNoPendingCheck(found, req) ==
    IF ~found THEN Fail("NotFound", "") ELSE Proceed

(* POST /api/requests/{requestId}/respond, lines 413-417 *)
RespondRequestChecks(found, req) ==
    IF ~found THEN Fail("NotFound", "")
    ELSE IF req.status # "pending"
    THEN Fail("Conflict", "Request is not pending.")
    ELSE Proceed

RespondItemChecksNoItemCheck(item) ==
    IF item.isLent THEN Fail("Conflict", "Item already loaned.") ELSE Proceed

RespondItemChecksNoLentCheck(item) ==
    IF ~item.exists THEN Fail("NotFound", "Item not found.") ELSE Proceed

(* POST /api/requests/{requestId}/respond, lines 425-427 *)
RespondItemChecks(item) ==
    IF ~item.exists THEN Fail("NotFound", "Item not found.")
    ELSE IF item.isLent THEN Fail("Conflict", "Item already loaned.")
    ELSE Proceed

ResponseStatusAlwaysAccepted(accepted) == "accepted"

(* respond, lines 421-422 and 438-439: the status written and returned *)
ResponseStatus(accepted) == IF accepted THEN "accepted" ELSE "denied"

PutPatchOwnerAsGiven(existing, item) ==
    LET lent == item.isLent
        borrowerRef == IF ~IsNullOrWhiteSpace(item.borrowerId)
                       THEN Trim(item.borrowerId) ELSE existing.borrower
        borrowedOn == IF item.borrowedOn # NoTime
                      THEN item.borrowedOn ELSE existing.borrowedOn
        dueAt == IF item.dueAt # NoTime THEN item.dueAt ELSE existing.dueAt
    IN [exists |-> TRUE,
        name |-> IF IsNullOrWhiteSpace(item.name)
                 THEN existing.name ELSE item.name,
        owner |-> CreateProfileReference(item.ownerId),
        isLent |-> lent,
        borrower |-> IF lent THEN borrowerRef ELSE Null,
        borrowedOn |-> IF lent THEN borrowedOn ELSE NoTime,
        dueAt |-> IF lent THEN dueAt ELSE NoTime]

(* PUT /api/items/{itemId}, lines 268-294: the patch of the document read *)
PutPatch(existing, item) ==
    LET lent == item.isLent
        borrowerRef == IF ~IsNullOrWhiteSpace(item.borrowerId)
                       THEN Trim(item.borrowerId) ELSE existing.borrower
        borrowedOn == IF item.borrowedOn # NoTime
                      THEN item.borrowedOn ELSE existing.borrowedOn
        dueAt == IF item.dueAt # NoTime THEN item.dueAt ELSE existing.dueAt
    IN [exists |-> TRUE,
        name |-> IF IsNullOrWhiteSpace(item.name)
                 THEN existing.name ELSE item.name,
        owner |-> IF ~IsNullOrWhiteSpace(item.ownerId)
                  THEN Trim(item.ownerId) ELSE existing.owner,
        isLent |-> lent,
        borrower |-> IF lent THEN borrowerRef ELSE Null,
        borrowedOn |-> IF lent THEN borrowedOn ELSE NoTime,
        dueAt |-> IF lent THEN dueAt ELSE NoTime]

BorrowPatchNoDueAt(item, borrowerRef, borrowedOn, dueAt) ==
    [item EXCEPT !.isLent = TRUE, !.borrower = borrowerRef,
                 !.borrowedOn = borrowedOn]

(* borrow, lines 321-324, and respond, lines 430-433: the fields set on    *)
(* the document read                                                       *)
BorrowPatch(item, borrowerRef, borrowedOn, dueAt) ==
    [item EXCEPT !.isLent = TRUE, !.borrower = borrowerRef,
                 !.borrowedOn = borrowedOn, !.dueAt = dueAt]

(* request.BorrowedOn ?? DateTime.UtcNow *)
BorrowedOnOrNow(borrowedOn, now) == IF borrowedOn # NoTime THEN borrowedOn ELSE now

NewRequestWithoutSnapshot(itemId, item, borrowerId, dueAt) ==
    Request(itemId, "", "", borrowerId, dueAt, "pending")

(* POST /api/requests, lines 383-391: the entity created *)
NewRequest(itemId, item, borrowerId, dueAt) ==
    Request(itemId, item.name, OwnerIdOf(item), borrowerId, dueAt, "pending")

----------------------------------------------------------------------------
(* The handlers, each run to completion *)

(* POST /api/items *)
CreateItem(item, newId) ==
    LET call == [NoCall EXCEPT !.op = "create", !.body = item]
    IN /\ edits' = edits + 1
       /\ IF IsNullOrWhiteSpace(item.ownerId)
          THEN /\ last' \in Observed(Resp(call, "BadRequest", "OwnerId is required."))
               /\ UNCHANGED items
          ELSE LET itemId == IF IsNullOrWhiteSpace(item.itemId)
                             THEN newId ELSE Trim(item.itemId)
               IN /\ itemId \in ItemIds
                  /\ items' = SetDocument(items, itemId, CreatePayload(item))
                  /\ last' \in Observed(Resp([call EXCEPT !.item = itemId,
                                                   !.before = items[itemId]],
                                             "Created", ""))
       /\ UNCHANGED <<reqs, calls>>

(* PUT /api/items/{itemId} *)
UpdateItem(itemId, item) ==
    LET existing == ReadAsync(items, itemId)
        call == [NoCall EXCEPT !.op = "update", !.item = itemId,
                               !.body = item, !.before = existing]
    IN /\ edits' = edits + 1
       /\ IF ~existing.exists
          THEN /\ last' \in Observed(Resp(call, "NotFound", ""))
               /\ UNCHANGED items
          ELSE /\ items' = UpdateAsync(items, itemId, PutPatch(existing, item))
               /\ last' \in Observed(Resp(call, "NoContent", ""))
       /\ UNCHANGED <<reqs, calls>>

(* POST /api/items/{itemId}/borrow *)
BorrowItem(itemId, borrowerId, borrowedOn, dueAt, now) ==
    LET item == ReadAsync(items, itemId)
        chk == BorrowChecks(borrowerId, item)
        call == [NoCall EXCEPT !.op = "borrow", !.item = itemId,
                               !.borrower = borrowerId, !.before = item]
    IN /\ IF chk # Proceed
          THEN /\ last' \in Observed(Resp(call, chk.outcome, chk.detail))
               /\ UNCHANGED items
          ELSE /\ items' = UpdateAsync(items, itemId,
                              BorrowPatch(item, Trim(borrowerId),
                                          BorrowedOnOrNow(borrowedOn, now), dueAt))
               /\ last' \in Observed(Resp(call, "Ok", ""))
       /\ UNCHANGED <<reqs, edits, calls>>

ReturnItemClosingRequests(itemId) ==
    LET r == ReturnItemAsync(items, itemId)
        call == [NoCall EXCEPT !.op = "return", !.item = itemId,
                               !.before = ReadAsync(items, itemId)]
    IN /\ items' = r.store
       /\ reqs' = [q \in 1..Len(reqs) |->
                     IF reqs[q].itemId = itemId /\ reqs[q].status = "accepted"
                     THEN [reqs[q] EXCEPT !.status = "returned"] ELSE reqs[q]]
       /\ last' \in Observed(
              IF r.ok
              THEN Resp(call, "Ok", "Item returned successfully.")
              ELSE Resp(call, "NotFound", "Item not found or already available."))
       /\ UNCHANGED <<edits, calls>>

(* POST /api/items/{itemId}/return *)
ReturnItem(itemId) ==
    LET r == ReturnItemAsync(items, itemId)
        call == [NoCall EXCEPT !.op = "return", !.item = itemId,
                               !.before = ReadAsync(items, itemId)]
    IN /\ items' = r.store
       /\ last' \in Observed(
              IF r.ok
              THEN Resp(call, "Ok", "Item returned successfully.")
              ELSE Resp(call, "NotFound", "Item not found or already available."))
       /\ UNCHANGED <<reqs, edits, calls>>

(* DELETE /api/items/{itemId} *)
DeleteItem(itemId) ==
    LET r == DeleteAsync(items, itemId)
        call == [NoCall EXCEPT !.op = "delete", !.item = itemId,
                               !.before = ReadAsync(items, itemId)]
    IN /\ items' = r.store
       /\ last' \in Observed(Resp(call, IF r.ok THEN "NoContent" ELSE "NotFound", ""))
       /\ UNCHANGED <<reqs, edits, calls>>

SubmitRequestRecordingRefusals(itemId, borrowerId, dueAt) ==
    LET item == ReadAsync(items, itemId)
        chk == SubmitChecks(itemId, borrowerId, item)
        call == [NoCall EXCEPT !.op = "submitRequest", !.item = itemId,
                               !.borrower = borrowerId, !.dueAt = dueAt,
                               !.before = item]
    IN /\ Len(reqs) < MaxRequests
       /\ reqs' = RequestsCreateAsync(reqs,
                      NewRequest(itemId, item, borrowerId, dueAt))
       /\ IF chk # Proceed
          THEN last' \in Observed(Resp(call, chk.outcome, chk.detail))
          ELSE last' \in Observed(Resp([call EXCEPT !.req = Len(reqs) + 1],
                                       "Ok", ""))
       /\ UNCHANGED <<items, edits, calls>>

(* POST /api/requests *)
SubmitRequest(itemId, borrowerId, dueAt) ==
    LET item == ReadAsync(items, itemId)
        chk == SubmitChecks(itemId, borrowerId, item)
        call == [NoCall EXCEPT !.op = "submitRequest", !.item = itemId,
                               !.borrower = borrowerId, !.dueAt = dueAt,
                               !.before = item]
    IN /\ IF chk # Proceed
          THEN /\ last' \in Observed(Resp(call, chk.outcome, chk.detail))
               /\ UNCHANGED reqs
          ELSE /\ Len(reqs) < MaxRequests
               /\ reqs' = RequestsCreateAsync(reqs,
                              NewRequest(itemId, item, borrowerId, dueAt))
               /\ last' \in Observed(Resp([call EXCEPT !.req = Len(reqs) + 1],
                                          "Ok", ""))
       /\ UNCHANGED <<items, edits, calls>>

(* GET /api/users/{ownerId}/borrowing *)
ListBorrowing(userId) ==
    LET call == [NoCall EXCEPT !.op = "borrowing", !.borrower = userId,
                               !.itemsListed = ListByBorrowerAsync(items, userId)]
    IN /\ last' \in Observed(Resp(call, "Ok", ""))
       /\ UNCHANGED <<items, reqs, edits, calls>>

(* GET /api/requests/owner/{ownerId} *)
ListOwnerRequests(ownerId) ==
    LET call == [NoCall EXCEPT !.op = "ownerRequests", !.owner = ownerId,
                               !.reqsListed = ListForOwnerAsync(reqs, ownerId)]
    IN /\ last' \in Observed(Resp(call, "Ok", ""))
       /\ UNCHANGED <<items, reqs, edits, calls>>

(* POST /api/requests/{requestId}/respond *)
Respond(requestId, accepted, now) ==
    LET found == HasRequest(reqs, requestId)
        req == IF found THEN reqs[requestId] ELSE NoRequest
        chk == RespondRequestChecks(found, req)
        item == ReadAsync(items, req.itemId)
        chkItem == RespondItemChecks(item)
        call == [NoCall EXCEPT !.op = "respond", !.req = requestId,
                               !.accepted = accepted, !.before = item]
    IN /\ IF chk # Proceed
          THEN /\ last' \in Observed(Resp(call, chk.outcome, chk.detail))
               /\ UNCHANGED <<items, reqs>>
          ELSE IF ~accepted
          THEN /\ reqs' = UpdateStatusAsync(reqs, requestId, ResponseStatus(FALSE))
               /\ last' \in Observed(Resp(call, "Ok", ResponseStatus(FALSE)))
               /\ UNCHANGED items
          ELSE IF chkItem # Proceed
          THEN /\ last' \in Observed(Resp(call, chkItem.outcome, chkItem.detail))
               /\ UNCHANGED <<items, reqs>>
          ELSE /\ items' = UpdateAsync(items, req.itemId,
                              BorrowPatch(item, req.borrowerId, now, req.dueAt))
               /\ reqs' = UpdateStatusAsync(reqs, requestId, ResponseStatus(TRUE))
               /\ last' \in Observed(Resp(call, "Ok", ResponseStatus(TRUE)))
       /\ UNCHANGED <<edits, calls>>

----------------------------------------------------------------------------
(* The collections as the server finds them: one item that u1 has listed   *)
(* through POST /api/items {name: "n1", ownerId: "u1"}, and no request yet. *)
Listed == CreatePayload([NoBody EXCEPT !.name = "n1", !.ownerId = "u1"])

(* No call in a slot *)
Idle == [pc |-> "idle", op |-> "none", item |-> "", req |-> NoReq,
         accepted |-> FALSE, borrower |-> "", doc |-> NoItem,
         rq |-> NoRequest, outcome |-> "none", detail |-> ""]

Init ==
    /\ items = [i \in ItemIds |-> Listed]
    /\ reqs = <<>>
    /\ last = NoCall
    /\ edits = 0
    /\ calls = [s \in Slots |-> Idle]

(* The calls a client can make. A call whose response has been recorded in *)
(* last ends the behaviour.                                                *)
Next ==
    \/ /\ last = NoCall /\ edits < MaxEdits
       /\ \E item \in ItemRequests, newId \in FreshItemIds(items) :
             CreateItem(item, newId)
    \/ /\ last = NoCall /\ edits < MaxEdits /\ FreshItemIds(items) = {}
       /\ \E item \in ItemRequests : CreateItem(item, "")
    \/ /\ last = NoCall /\ edits < MaxEdits
       /\ \E itemId \in ItemIds, item \in PutRequests : UpdateItem(itemId, item)
    \/ /\ last = NoCall
       /\ \E itemId \in ItemIds, borrowerId \in UserInputs,
             borrowedOn \in OptTimes, dueAt \in OptTimes, now \in Times :
             BorrowItem(itemId, borrowerId, borrowedOn, dueAt, now)
    \/ /\ last = NoCall
       /\ \E itemId \in ItemIds : ReturnItem(itemId)
    \/ /\ last = NoCall
       /\ \E itemId \in ItemIds : DeleteItem(itemId)
    \/ /\ last = NoCall
       /\ \E itemId \in ItemIdInputs, borrowerId \in UserInputs,
             dueAt \in OptTimes : SubmitRequest(itemId, borrowerId, dueAt)
    \/ /\ last = NoCall
       /\ \E requestId \in ReqIds, accepted \in BOOLEAN, now \in Times :
             Respond(requestId, accepted, now)
    \/ /\ last = NoCall
       /\ \E userId \in UserInputs : ListBorrowing(userId)
    \/ /\ last = NoCall
       /\ \E ownerId \in UserInputs : ListOwnerRequests(ownerId)

Spec == Init /\ [][Next]_vars

----------------------------------------------------------------------------
(* Concurrent calls. Every handler is an async lambda: between two awaits  *)
(* on the store other calls run. A slot holds one call and the copies it   *)
(* has read.                                                               *)

Done(c, outcome, detail) ==
    [c EXCEPT !.pc = "done", !.outcome = outcome, !.detail = detail]

Set(s, c) == calls' = [calls EXCEPT ![s] = c]

(* respond, lines 413-423: the read of the request and the checks on it *)
StartRespond(s, requestId, accepted) ==
    LET c == [Idle EXCEPT !.op = "respond", !.req = requestId,
                          !.accepted = accepted]
        found == HasRequest(reqs, requestId)
        req == IF found THEN reqs[requestId] ELSE NoRequest
        chk == RespondRequestChecks(found, req)
    IN /\ calls[s].pc = "idle"
       /\ IF chk # Proceed
          THEN Set(s, Done(c, chk.outcome, chk.detail))
          ELSE IF ~accepted
          THEN Set(s, [c EXCEPT !.pc = "writeStatus", !.rq = req])
          ELSE Set(s, [c EXCEPT !.pc = "readItem", !.rq = req])
       /\ UNCHANGED <<items, reqs, last, edits>>

(* respond, lines 425-433: the read of the item and the checks on it *)
RespondReadItem(s, now) ==
    LET c == calls[s]
        item == ReadAsync(items, c.rq.itemId)
        chk == RespondItemChecks(item)
    IN /\ c.pc = "readItem"
       /\ IF chk # Proceed
          THEN Set(s, Done(c, chk.outcome, chk.detail))
          ELSE Set(s, [c EXCEPT !.pc = "writeItem", !.item = c.rq.itemId,
                         !.doc = BorrowPatch(item, c.rq.borrowerId, now,
                                             c.rq.dueAt)])
       /\ UNCHANGED <<items, reqs, last, edits>>

(* respond, lines 421 and 438: UpdateStatusAsync and the response *)
WriteStatus(s) ==
    LET c == calls[s]
    IN /\ c.pc = "writeStatus"
       /\ reqs' = UpdateStatusAsync(reqs, c.req, ResponseStatus(c.accepted))
       /\ Set(s, Done(c, "Ok", ResponseStatus(c.accepted)))
       /\ UNCHANGED <<items, last, edits>>

(* borrow, lines 303-324: the checks and the read of the item *)
StartBorrow(s, itemId, borrowerId, borrowedOn, dueAt, now) ==
    LET c == [Idle EXCEPT !.op = "borrow", !.item = itemId,
                          !.borrower = borrowerId]
        item == ReadAsync(items, itemId)
        chk == BorrowChecks(borrowerId, item)
    IN /\ calls[s].pc = "idle"
       /\ IF chk # Proceed
          THEN Set(s, Done(c, chk.outcome, chk.detail))
          ELSE Set(s, [c EXCEPT !.pc = "writeItem",
                         !.doc = BorrowPatch(item, Trim(borrowerId),
                                    BorrowedOnOrNow(borrowedOn, now), dueAt)])
       /\ UNCHANGED <<items, reqs, last, edits>>

(* PUT, lines 262-294: the read of the item and the patch of the copy *)
StartUpdate(s, itemId, item) ==
    LET c == [Idle EXCEPT !.op = "update", !.item = itemId]
        existing == ReadAsync(items, itemId)
    IN /\ calls[s].pc = "idle"
       /\ edits' = edits + 1
       /\ IF ~existing.exists
          THEN Set(s, Done(c, "NotFound", ""))
          ELSE Set(s, [c EXCEPT !.pc = "writeItem",
                                !.doc = PutPatch(existing, item)])
       /\ UNCHANGED <<items, reqs, last>>

(* items.UpdateAsync of the copy held by a borrow, PUT or respond call *)
WriteItem(s) ==
    LET c == calls[s]
    IN /\ c.pc = "writeItem"
       /\ items' = UpdateAsync(items, c.item, c.doc)
       /\ Set(s, CASE c.op = "respond" -> [c EXCEPT !.pc = "writeStatus"]
                   [] c.op = "update"  -> Done(c, "NoContent", "")
                   [] OTHER            -> Done(c, "Ok", ""))
       /\ UNCHANGED <<reqs, last, edits>>

(* ReturnItemAsync, lines 251-257: the snapshot read *)
StartReturn(s, itemId) ==
    LET c == [Idle EXCEPT !.op = "return", !.item = itemId]
    IN /\ calls[s].pc = "idle"
       /\ IF ~ReadAsync(items, itemId).exists
          THEN Set(s, Done(c, "NotFound", "Item not found or already available."))
          ELSE Set(s, [c EXCEPT !.pc = "returnWrite"])
       /\ UNCHANGED <<items, reqs, last, edits>>

(* ReturnItemAsync, lines 260-271: DocumentReference.UpdateAsync, which    *)
(* fails (the call ends in a 500) when the document is gone by then        *)
ReturnWrite(s) ==
    LET c == calls[s]
    IN /\ c.pc = "returnWrite"
       /\ IF items[c.item].exists
          THEN /\ items' = [items EXCEPT ![c.item] = ReturnUpdates(@)]
               /\ Set(s, Done(c, "Ok", "Item returned successfully."))
          ELSE /\ UNCHANGED items
               /\ Set(s, Done(c, "Error", ""))
       /\ UNCHANGED <<reqs, last, edits>>

(* DELETE: one access to the store *)
StartDelete(s, itemId) ==
    LET c == [Idle EXCEPT !.op = "delete", !.item = itemId]
        r == DeleteAsync(items, itemId)
    IN /\ calls[s].pc = "idle"
       /\ items' = r.store
       /\ Set(s, Done(c, IF r.ok THEN "NoContent" ELSE "NotFound", ""))
       /\ UNCHANGED <<reqs, last, edits>>

(* POST /api/items: one access to the store *)
StartCreate(s, item, newId) ==
    LET c == [Idle EXCEPT !.op = "create"]
    IN /\ calls[s].pc = "idle"
       /\ edits' = edits + 1
       /\ IF IsNullOrWhiteSpace(item.ownerId)
          THEN /\ Set(s, Done(c, "BadRequest", "OwnerId is required."))
               /\ UNCHANGED items
          ELSE LET itemId == IF IsNullOrWhiteSpace(item.itemId)
                             THEN newId ELSE Trim(item.itemId)
               IN /\ itemId \in ItemIds
                  /\ items' = SetDocument(items, itemId, CreatePayload(item))
                  /\ Set(s, Done([c EXCEPT !.item = itemId], "Created", ""))
       /\ UNCHANGED <<reqs, last>>

(* submitRequest, lines 368-391: the checks and the read of the item *)
StartSubmit(s, itemId, borrowerId, dueAt) ==
    LET c == [Idle EXCEPT !.op = "submitRequest", !.item = itemId,
                          !.borrower = borrowerId]
        item == ReadAsync(items, itemId)
        chk == SubmitChecks(itemId, borrowerId, item)
    IN /\ calls[s].pc = "idle"
       /\ IF chk # Proceed
          THEN Set(s, Done(c, chk.outcome, chk.detail))
          ELSE Set(s, [c EXCEPT !.pc = "createRequest",
                         !.rq = NewRequest(itemId, item, borrowerId, dueAt)])
       /\ UNCHANGED <<items, reqs, last, edits>>

(* submitRequest, lines 393-394: requests.CreateAsync *)
CreateRequest(s) ==
    LET c == calls[s]
    IN /\ c.pc = "createRequest"
       /\ Len(reqs) < MaxRequests
       /\ reqs' = RequestsCreateAsync(reqs, c.rq)
       /\ Set(s, Done([c EXCEPT !.req = Len(reqs) + 1], "Ok", ""))
       /\ UNCHANGED <<items, last, edits>>

(* The caller abandons the call (its CancellationToken fires, or the       *)
(* process stops) between two accesses to the store; nothing is rolled     *)
(* back. `detail` keeps the step the call did not get to.                  *)
Abandon(s) ==
    /\ calls[s].pc \notin {"idle", "done", "abandoned"}
    /\ Set(s, [calls[s] EXCEPT !.pc = "abandoned", !.detail = calls[s].pc])
    /\ UNCHANGED <<items, reqs, last, edits>>

(* The store SpecConc starts from: the listed item, with the pending      *)
(* request of u2 for it and possibly that of u3                            *)
RequestOfU2 == Request("i1", "n1", "u1", "u2", 1, "pending")
RequestOfU3 == Request("i1", "n1", "u1", "u3", NoTime, "pending")

InitConc ==
    /\ items = [i \in ItemIds |-> Listed]
    /\ reqs \in {<<RequestOfU2>>, <<RequestOfU2, RequestOfU3>>}
    /\ last = NoCall
    /\ edits = 0
    /\ calls = [s \in Slots |-> Idle]

NextConc ==
    \E s \in Slots :
       \/ \E requestId \in ReqIds, accepted \in BOOLEAN :
             StartRespond(s, requestId, accepted)
       \/ \E now \in Times : RespondReadItem(s, now)
       \/ WriteStatus(s)
       \/ \E itemId \in ItemIds, borrowerId \in UserInputs,
             borrowedOn \in OptTimes, dueAt \in OptTimes, now \in Times :
             StartBorrow(s, itemId, borrowerId, borrowedOn, dueAt, now)
       \/ /\ edits < MaxEdits
          /\ \E itemId \in ItemIds, item \in PutRequests :
                StartUpdate(s, itemId, item)
       \/ WriteItem(s)
       \/ \E itemId \in ItemIds : StartReturn(s, itemId)
       \/ ReturnWrite(s)
       \/ \E itemId \in ItemIds : StartDelete(s, itemId)
       \/ /\ edits < MaxEdits
          /\ \E item \in ItemRequests :
                \/ \E newId \in FreshItemIds(items) : StartCreate(s, item, newId)
                \/ FreshItemIds(items) = {} /\ StartCreate(s, item, "")
       \/ \E itemId \in ItemIdInputs, borrowerId \in UserInputs, dueAt \in OptTimes :
             StartSubmit(s, itemId, borrowerId, dueAt)
       \/ CreateRequest(s)
       \/ Abandon(s)

SpecConc == InitConc /\ [][NextConc]_vars

----------------------------------------------------------------------------
(* The owner's page after a refused accept: respond() shows the message of *)
(* the server and returns, and the page lists the requests again, so the   *)
(* owner goes on making calls. Slot 1 keeps what the page was told when    *)
(* the accept was refused because the item was lent (after any other       *)
(* answer the calls go on with nothing kept).                              *)
NoteRefusal ==
    /\ last.op = "respond" /\ last.accepted
    /\ last.outcome = "Conflict" /\ last.detail = "Item already loaned."
    /\ calls' = [calls EXCEPT ![1] =
                   Done([Idle EXCEPT !.op = "respond", !.req = last.req,
                                     !.accepted = last.accepted],
                        last.outcome, last.detail)]
    /\ last' = NoCall
    /\ UNCHANGED <<items, reqs, edits>>

NextRetry == Next \/ NoteRefusal

SpecRetry == Init /\ [][NextRetry]_vars

----------------------------------------------------------------------------
(* Properties. A step that records its response in last is the call        *)
(* last' names, made in the unprimed state; the primed state is the store  *)
(* after it.                                                               *)

Answered(op) == last' # NoCall /\ last'.op = op

BorrowFieldsConsistent(doc) ==
    IF doc.isLent
    THEN doc.borrower # Null /\ doc.borrower # "" /\ doc.borrowedOn # NoTime
    ELSE doc.borrower = Null /\ doc.borrowedOn = NoTime /\ doc.dueAt = NoTime

(* C1: in every reachable state every stored item that is lent has a       *)
(* borrower and a borrowedOn, and every stored item that is not lent has   *)
(* no borrower, no borrowedOn and no dueAt.                                *)
ItemInvariant ==
    \A i \in ItemIds : items[i].exists => BorrowFieldsConsistent(items[i])

(* C2: with respond calls interleaved at their reads and writes, the       *)
(* status of a request changes only from pending, and only to accepted or  *)
(* denied; an accepted or denied request keeps its status.                 *)
StatusOnlyLeavesPending ==
    [][\A r \in 1..Len(reqs) :
          reqs'[r].status # reqs[r].status =>
             /\ reqs[r].status = "pending"
             /\ reqs'[r].status \in {"accepted", "denied"}]_vars

(* C3: respond(accepted = true) on a pending request whose item is lent    *)
(* answers Conflict, leaves the request pending and leaves the item, its   *)
(* borrower, borrowedOn and dueAt as they were.                            *)
AcceptOnLentItemConflicts ==
    [][(/\ Answered("respond") /\ last'.accepted
        /\ HasRequest(reqs, last'.req)
        /\ reqs[last'.req].status = "pending"
        /\ ReadAsync(items, reqs[last'.req].itemId).exists
        /\ ReadAsync(items, reqs[last'.req].itemId).isLent)
       => (/\ last'.outcome = "Conflict"
           /\ reqs' = reqs
           /\ reqs'[last'.req].status = "pending"
           /\ items' = items)]_vars

(* u3's request is refused after u2's was accepted: it stays pending and   *)
(* the item stays lent to u2                                               *)
AcceptOnLentItemWitness ==
    /\ last.op = "respond" /\ last.accepted
    /\ last.outcome = "Conflict" /\ last.detail = "Item already loaned."
    /\ reqs[last.req].status = "pending"
    /\ \E r \in 1..Len(reqs) :
          /\ reqs[r].status = "accepted"
          /\ reqs[r].itemId = reqs[last.req].itemId
          /\ items[reqs[r].itemId].isLent
          /\ items[reqs[r].itemId].borrower = reqs[r].borrowerId
          /\ reqs[r].borrowerId # reqs[last.req].borrowerId

(* C4: the status of a request leaves pending only by a respond call that  *)
(* succeeds, and every respond call on a request that is no longer         *)
(* pending, whatever its accepted value, answers Conflict and changes      *)
(* neither the requests nor the items.                                     *)
RespondedRequestIsFinal ==
    [][/\ \A r \in 1..Len(reqs) :
             (last' # NoCall /\ reqs'[r].status # reqs[r].status)
             => (/\ reqs[r].status = "pending"
                 /\ last'.op = "respond" /\ last'.req = r
                 /\ last'.outcome = "Ok")
       /\ (/\ Answered("respond")
           /\ HasRequest(reqs, last'.req)
           /\ reqs[last'.req].status \in {"accepted", "denied"})
          => (/\ last'.outcome = "Conflict"
              /\ reqs' = reqs
              /\ items' = items)]_vars

(* An accept that follows a deny of the same request, the item still       *)
(* available: Conflict, the request stays denied, the item stays available *)
RespondedRequestWitness ==
    /\ last.op = "respond" /\ last.accepted
    /\ last.outcome = "Conflict" /\ last.detail = "Request is not pending."
    /\ reqs[last.req].status = "denied"
    /\ items[reqs[last.req].itemId].exists
    /\ ~items[reqs[last.req].itemId].isLent

(* C5: submitRequest whose borrowerId is the owner of the item answers     *)
(* BadRequest, whether the item is lent or not, and creates no request.    *)
OwnRequestIsBadRequest ==
    [][(/\ Answered("submitRequest")
        /\ ReadAsync(items, last'.item).exists
        /\ OwnerIdOf(ReadAsync(items, last'.item)) = last'.borrower)
       => (/\ last'.outcome = "BadRequest"
           /\ reqs' = reqs
           /\ items' = items)]_vars

(* The owner asks for their own item while it is lent to someone else *)
OwnRequestWitness ==
    /\ last.op = "submitRequest"
    /\ last.outcome = "BadRequest"
    /\ last.detail = "You cannot request your own item."
    /\ items[last.item].exists /\ items[last.item].isLent
    /\ items[last.item].owner = last.borrower
    /\ items[last.item].borrower # last.borrower

(* C6: submitRequest by a user who is not the owner, for an item that      *)
(* exists: when the item is lent the call answers Conflict and creates no  *)
(* request; when it is not lent the call adds exactly one request, which   *)
(* is pending and holds the item's id, name and owner and the borrower and *)
(* dueAt given. No item changes.                                           *)
SubmitByOtherUser ==
    [][LET item == ReadAsync(items, last'.item)
       IN (/\ Answered("submitRequest")
           /\ item.exists
           /\ ~IsNullOrWhiteSpace(last'.borrower)
           /\ OwnerIdOf(item) # last'.borrower)
          => (/\ items' = items
              /\ IF item.isLent
                 THEN /\ last'.outcome = "Conflict"
                      /\ reqs' = reqs
                 ELSE /\ last'.outcome = "Ok"
                      /\ last'.req = Len(reqs) + 1
                      /\ reqs' = Append(reqs,
                            [itemId |-> last'.item, itemName |-> item.name,
                             ownerId |-> item.owner,
                             borrowerId |-> last'.borrower,
                             dueAt |-> last'.dueAt, status |-> "pending"]))]_vars

(* A second request for the available item, by another user and with a    *)
(* due date, next to the first one                                         *)
SubmitByOtherUserWitness ==
    /\ last.op = "submitRequest" /\ last.outcome = "Ok"
    /\ last.req = 2 /\ Len(reqs) = 2
    /\ reqs[2].status = "pending"
    /\ reqs[2].itemId = last.item /\ reqs[2].borrowerId = last.borrower
    /\ reqs[2].dueAt = last.dueAt /\ last.dueAt # NoTime
    /\ reqs[2].ownerId = items[last.item].owner
    /\ reqs[2].ownerId # reqs[2].borrowerId
    /\ reqs[1].borrowerId # reqs[2].borrowerId
    /\ ~items[last.item].isLent

(* C7: respond(accepted = false) on a pending request succeeds and sets    *)
(* its status to denied, whether its item is available, lent or deleted;   *)
(* every item and every other request stay as they were.                   *)
DenyOnlyMarksTheRequest ==
    [][(/\ Answered("respond") /\ ~last'.accepted
        /\ HasRequest(reqs, last'.req)
        /\ reqs[last'.req].status = "pending")
       => (/\ last'.outcome = "Ok" /\ last'.detail = "denied"
           /\ reqs' = [reqs EXCEPT ![last'.req].status = "denied"]
           /\ items' = items)]_vars

(* A deny of a request whose item has been deleted, next to another        *)
(* request that is still pending                                           *)
DenyWitness ==
    /\ last.op = "respond" /\ ~last.accepted /\ last.outcome = "Ok"
    /\ reqs[last.req].status = "denied"
    /\ ~items[reqs[last.req].itemId].exists
    /\ \E r \in 1..Len(reqs) : r # last.req /\ reqs[r].status = "pending"

(* C8: respond(accepted = true) on a pending request whose item exists and *)
(* is not lent succeeds: the item becomes lent to the request's borrower   *)
(* with the request's dueAt and a borrowedOn, its name and owner stay, the *)
(* request becomes accepted, and every other item and request stays as it  *)
(* was.                                                                    *)
AcceptLendsTheItem ==
    [][LET req == reqs[last'.req]
           item == ReadAsync(items, req.itemId)
       IN (/\ Answered("respond") /\ last'.accepted
           /\ HasRequest(reqs, last'.req)
           /\ req.status = "pending"
           /\ item.exists /\ ~item.isLent)
          => (/\ last'.outcome = "Ok" /\ last'.detail = "accepted"
              /\ reqs' = [reqs EXCEPT ![last'.req].status = "accepted"]
              /\ \E now \in Times :
                    items' = [items EXCEPT ![req.itemId] =
                                 [exists |-> TRUE, name |-> item.name,
                                  owner |-> item.owner, isLent |-> TRUE,
                                  borrower |-> req.borrowerId,
                                  borrowedOn |-> now, dueAt |-> req.dueAt]])]_vars

(* An accepted request with a due date, next to another one still pending *)
AcceptWitness ==
    /\ last.op = "respond" /\ last.accepted /\ last.outcome = "Ok"
    /\ reqs[last.req].status = "accepted"
    /\ reqs[last.req].dueAt # NoTime
    /\ items[reqs[last.req].itemId].isLent
    /\ items[reqs[last.req].itemId].borrower = reqs[last.req].borrowerId
    /\ items[reqs[last.req].itemId].dueAt = reqs[last.req].dueAt
    /\ items[reqs[last.req].itemId].borrowedOn # NoTime
    /\ \E r \in 1..Len(reqs) : r # last.req /\ reqs[r].status = "pending"

(* C9: no update (PUT), borrow, submitRequest or respond call moves an     *)
(* existing item from lent to not lent; only a successful return does.     *)
OnlyReturnMakesAvailable ==
    [][\A i \in ItemIds :
          (/\ last' # NoCall
           /\ last'.op \in {"update", "borrow", "submitRequest", "respond", "return"}
           /\ items[i].exists /\ items[i].isLent
           /\ items'[i].exists /\ ~items'[i].isLent)
          => (last'.op = "return" /\ last'.outcome = "Ok")]_vars

(* C10: return on an existing item that is not lent and has no borrower    *)
(* answers NotFound or Conflict, not success.                              *)
ReturnOfAvailableItemFails ==
    [][(/\ Answered("return")
        /\ ReadAsync(items, last'.item).exists
        /\ ~ReadAsync(items, last'.item).isLent
        /\ ReadAsync(items, last'.item).borrower = Null)
       => last'.outcome \in {"NotFound", "Conflict"}]_vars

(* C11: a direct borrow with a blank borrowerId answers BadRequest         *)
(* whether or not the item exists; with a borrowerId, on an id with no     *)
(* item it answers NotFound and creates no item; on an item that is lent   *)
(* it answers Conflict and leaves the item, its borrower, borrowedOn and   *)
(* dueAt as they were.                                                     *)
BorrowRefusals ==
    [][LET item == ReadAsync(items, last'.item)
       IN Answered("borrow") =>
             /\ IsNullOrWhiteSpace(last'.borrower)
                => (last'.outcome = "BadRequest" /\ items' = items)
             /\ (~IsNullOrWhiteSpace(last'.borrower) /\ ~item.exists)
                => (/\ last'.outcome = "NotFound"
                    /\ items' = items
                    /\ ~ReadAsync(items', last'.item).exists)
             /\ (~IsNullOrWhiteSpace(last'.borrower) /\ item.exists /\ item.isLent)
                => (last'.outcome = "Conflict" /\ items' = items)]_vars

(* u3 tries to borrow the item that is lent to another user, with its      *)
(* borrowedOn set: Conflict, and the item is as it was                     *)
BorrowRefusalWitness ==
    /\ last.op = "borrow" /\ last.outcome = "Conflict"
    /\ last.borrower = "u3"
    /\ last.before.isLent
    /\ last.before.borrower \notin {Null, "u3"}
    /\ last.before.borrowedOn # NoTime
    /\ items[last.item] = last.before

(* C12: a successful return of a lent item stores it with isLent false and *)
(* no borrower, borrowedOn or dueAt, in one step, with its name and owner  *)
(* as they were; ListByBorrowerAsync then holds the item for no borrower.  *)
ReturnClearsTheLoan ==
    [][(/\ Answered("return") /\ last'.outcome = "Ok"
        /\ ReadAsync(items, last'.item).isLent)
       => (/\ items' = [items EXCEPT ![last'.item] =
                           [exists |-> TRUE, name |-> @.name, owner |-> @.owner,
                            isLent |-> FALSE, borrower |-> Null,
                            borrowedOn |-> NoTime, dueAt |-> NoTime]]
           /\ \A b \in UserInputs :
                 last'.item \notin ListByBorrowerAsync(items', b))]_vars

(* The item was lent to u2 with a due date; after the return it is         *)
(* available and u2's borrowing list is empty                              *)
ReturnWitness ==
    /\ last.op = "return" /\ last.outcome = "Ok"
    /\ last.before.isLent /\ last.before.borrower = "u2"
    /\ last.before.dueAt # NoTime
    /\ ~items[last.item].isLent /\ items[last.item].borrower = Null
    /\ items[last.item].owner = last.before.owner
    /\ ListByBorrowerAsync(items, "u2") = {}

(* C13: DELETE /api/items/{id} answers NotFound and changes nothing when   *)
(* no item has that id, and answers success only when an item had it.      *)
DeleteOfMissingItemIsNotFound ==
    [][Answered("delete") =>
          IF ReadAsync(items, last'.item).exists
          THEN last'.outcome = "NoContent"
          ELSE last'.outcome = "NotFound" /\ items' = items]_vars

(* C14: a PUT whose body has every field blank, zero or absent leaves      *)
(* every field of the stored item as it was, the lent flag, borrower,      *)
(* borrowedOn and dueAt of a lent item included.                           *)
BlankUpdateChangesNothing ==
    [][(/\ Answered("update") /\ last'.body = NoBody
        /\ ReadAsync(items, last'.item).exists)
       => items' = items]_vars

(* C15: GET /api/requests/owner/{o} returns exactly the stored requests    *)
(* whose ownerId is o and whose status is pending; a pending request is in *)
(* its owner's list, leaves every list with the respond call that accepts  *)
(* or denies it, stays in its owner's list when the respond call fails,    *)
(* and no list holds a request of another owner.                           *)
OwnerListIsPendingOnly ==
    [][/\ Answered("ownerRequests")
          => last'.reqsListed =
                {r \in 1..Len(reqs) : /\ reqs[r].ownerId = last'.owner
                                      /\ reqs[r].status = "pending"}
       /\ (/\ Answered("respond") /\ HasRequest(reqs, last'.req)
           /\ reqs[last'.req].status = "pending")
          => (/\ last'.req \in ListForOwnerAsync(reqs, reqs[last'.req].ownerId)
              /\ IF last'.outcome = "Ok"
                 THEN \A o \in UserInputs :
                         last'.req \notin ListForOwnerAsync(reqs', o)
                 ELSE last'.req \in
                         ListForOwnerAsync(reqs', reqs[last'.req].ownerId))
       /\ \A o \in UserInputs :
             \A r \in ListForOwnerAsync(reqs', o) : reqs'[r].ownerId = o]_vars

(* u1's list holds the pending request and not the one already accepted *)
OwnerListWitness ==
    /\ last.op = "ownerRequests" /\ last.owner = "u1"
    /\ Len(reqs) = 2
    /\ reqs[1].ownerId = "u1" /\ reqs[1].status = "accepted"
    /\ reqs[2].ownerId = "u1" /\ reqs[2].status = "pending"
    /\ last.reqsListed = {2}

(* C16: respond(accepted = true) on a pending request whose item has been  *)
(* deleted answers NotFound, leaves the request pending and stores no      *)
(* item.                                                                   *)
AcceptOnDeletedItemIsNotFound ==
    [][(/\ Answered("respond") /\ last'.accepted
        /\ HasRequest(reqs, last'.req)
        /\ reqs[last'.req].status = "pending"
        /\ ~ReadAsync(items, reqs[last'.req].itemId).exists)
       => (/\ last'.outcome = "NotFound"
           /\ reqs' = reqs
           /\ items' = items
           /\ \A i \in ItemIds : ~items[i].exists => ~items'[i].exists)]_vars

(* The item of the pending request is gone: NotFound, still pending *)
AcceptOnDeletedItemWitness ==
    /\ last.op = "respond" /\ last.accepted
    /\ last.outcome = "NotFound" /\ last.detail = "Item not found."
    /\ reqs[last.req].status = "pending"
    /\ reqs[last.req].itemId \in ItemIds
    /\ ~items[reqs[last.req].itemId].exists

(* C17: submitRequest with a borrower id, for an item id that has no       *)
(* stored item, answers NotFound and creates no request; respond on a      *)
(* request id that has no stored request answers NotFound; neither changes *)
(* an item or a request.                                                   *)
MissingItemOrRequestIsNotFound ==
    [][/\ (/\ Answered("submitRequest")
           /\ ~IsNullOrWhiteSpace(last'.item)
           /\ ~IsNullOrWhiteSpace(last'.borrower)
           /\ ~ReadAsync(items, last'.item).exists)
          => (last'.outcome = "NotFound" /\ reqs' = reqs /\ items' = items)
       /\ (Answered("respond") /\ ~HasRequest(reqs, last'.req))
          => (last'.outcome = "NotFound" /\ reqs' = reqs /\ items' = items)]_vars

(* The former owner asks for the item after it has been deleted, while a   *)
(* request for it is stored                                                *)
MissingItemWitness ==
    /\ last.op = "submitRequest" /\ last.item = "i1"
    /\ last.outcome = "NotFound" /\ last.detail = "Item not found."
    /\ ~items["i1"].exists
    /\ Len(reqs) = 1 /\ reqs[1].ownerId = last.borrower

(* C18: a borrow call and a return call leave the requests as they were.   *)
BorrowAndReturnLeaveRequests ==
    [][(Answered("borrow") \/ Answered("return")) => reqs' = reqs]_vars

(* The item lent through an accepted request is returned, and the request  *)
(* is still accepted                                                       *)
ReturnAfterAcceptWitness ==
    /\ last.op = "return" /\ last.outcome = "Ok"
    /\ last.before.isLent
    /\ ~items[last.item].isLent
    /\ \E r \in 1..Len(reqs) :
          /\ reqs[r].itemId = last.item
          /\ reqs[r].status = "accepted"
          /\ reqs[r].borrowerId = last.before.borrower

(* C19: no update (PUT), return, submitRequest or deny moves an existing   *)
(* item from not lent to lent; only a successful borrow or a successful    *)
(* respond(accepted = true) does.                                          *)
OnlyBorrowOrAcceptLends ==
    [][\A i \in ItemIds :
          (/\ last' # NoCall
           /\ last'.op \in {"update", "borrow", "return", "submitRequest", "respond"}
           /\ items[i].exists /\ ~items[i].isLent
           /\ items'[i].exists /\ items'[i].isLent)
          => (/\ last'.outcome = "Ok"
              /\ \/ last'.op = "borrow"
                 \/ last'.op = "respond" /\ last'.accepted)]_vars

(* C20, as the code has it: create stores the item under the id given,     *)
(* trimmed, or under a fresh id when none is given; the stored lent flag   *)
(* is true only when isLent is passed true with a non-blank borrowerId;    *)
(* a lent item is stored with the borrower, borrowedOn and dueAt passed,   *)
(* and an item stored not lent has none of the three, whatever was passed. *)
CreateNormalisesTheLoan ==
    [][(Answered("create") /\ last'.outcome = "Created")
       => LET b == last'.body
              doc == items'[last'.item]
              lent == b.isLent /\ ~IsNullOrWhiteSpace(b.borrowerId)
          IN /\ IF IsNullOrWhiteSpace(b.itemId)
                THEN ~items[last'.item].exists
                ELSE last'.item = Trim(b.itemId)
             /\ doc.exists
             /\ doc.name = b.name /\ doc.owner = Trim(b.ownerId)
             /\ doc.isLent = lent
             /\ IF lent
                THEN /\ doc.borrower = Trim(b.borrowerId)
                     /\ doc.borrowedOn = b.borrowedOn
                     /\ doc.dueAt = b.dueAt
                ELSE /\ doc.borrower = Null
                     /\ doc.borrowedOn = NoTime
                     /\ doc.dueAt = NoTime]_vars

(* A body with isLent true, dates and no borrower, and no id: stored       *)
(* under a fresh id, not lent and without dates                            *)
CreateNormalisesWitness ==
    /\ last.op = "create" /\ last.outcome = "Created"
    /\ last.body.itemId = "" /\ ~last.before.exists
    /\ last.body.isLent /\ last.body.borrowerId = ""
    /\ last.body.borrowedOn # NoTime /\ last.body.dueAt # NoTime
    /\ items[last.item].exists
    /\ ~items[last.item].isLent
    /\ items[last.item].borrowedOn = NoTime /\ items[last.item].dueAt = NoTime

(* C20: create stores the lent flag, borrower, borrowedOn and dueAt        *)
(* exactly as passed, for every combination of them.                       *)
CreatePersistsAsGiven ==
    [][(Answered("create") /\ last'.outcome = "Created")
       => LET b == last'.body
              doc == items'[last'.item]
          IN /\ doc.isLent = b.isLent
             /\ doc.borrower = CreateProfileReference(b.borrowerId)
             /\ doc.borrowedOn = b.borrowedOn
             /\ doc.dueAt = b.dueAt]_vars

(* C21: a request created by submitRequest holds the name and the owner    *)
(* the item had when the call ran, and no later call changes the itemId,   *)
(* itemName, ownerId or borrowerId of a stored request, whatever happens   *)
(* to the item.                                                            *)
RequestSnapshotIsKept ==
    [][/\ (Answered("submitRequest") /\ last'.outcome = "Ok")
          => (/\ Len(reqs') = Len(reqs) + 1
              /\ reqs'[Len(reqs')].itemName = ReadAsync(items, last'.item).name
              /\ reqs'[Len(reqs')].ownerId = ReadAsync(items, last'.item).owner)
       /\ Len(reqs') >= Len(reqs)
       /\ \A r \in 1..Len(reqs) :
             /\ reqs'[r].itemName = reqs[r].itemName
             /\ reqs'[r].ownerId = reqs[r].ownerId
             /\ reqs'[r].itemId = reqs[r].itemId
             /\ reqs'[r].borrowerId = reqs[r].borrowerId]_vars

(* A PUT has renamed the item and given it another owner; the request      *)
(* made before still holds the old name and the old owner                  *)
RequestSnapshotWitness ==
    /\ last.op = "update" /\ last.outcome = "NoContent"
    /\ Len(reqs) >= 1
    /\ reqs[1].itemId = last.item
    /\ reqs[1].itemName = last.before.name /\ reqs[1].ownerId = last.before.owner
    /\ items[last.item].name # reqs[1].itemName
    /\ items[last.item].owner # reqs[1].ownerId

(* Two calls in flight that both accept, for the same item, two different  *)
(* requests, and that have both passed the checks on the item              *)
PassedItemChecks(c) ==
    /\ c.op = "respond" /\ c.accepted
    /\ \/ c.pc \in {"writeItem", "writeStatus"}
       \/ c.pc = "done" /\ c.outcome = "Ok"

CompetingAccepts(s, t) ==
    /\ s # t
    /\ PassedItemChecks(calls[s]) /\ PassedItemChecks(calls[t])
    /\ calls[s].req # calls[t].req
    /\ calls[s].rq.itemId = calls[t].rq.itemId

(* C22: when two respond(accepted = true) calls on two different pending   *)
(* requests for the same available item have both read the item before    *)
(* either wrote it, each write replaces the whole item by the writer's     *)
(* copy, both calls answer Ok, both requests end accepted, and the item    *)
(* ends lent with the borrower and dueAt of the call that wrote last (no   *)
(* third call being made meanwhile).                                       *)
DoubleLoan ==
    [][\A s, t \in Slots :
          CompetingAccepts(s, t) =>
             /\ (calls[s].pc = "writeItem" /\ calls'[s].pc = "writeStatus")
                => (/\ items'[calls[s].item] = calls[s].doc
                    /\ items'[calls[s].item].borrower = calls[s].rq.borrowerId
                    /\ items'[calls[s].item].dueAt = calls[s].rq.dueAt)
             /\ (calls[s].pc = "writeStatus" /\ calls'[s].pc = "done")
                => (/\ calls'[s].outcome = "Ok"
                    /\ reqs'[calls[s].req].status = "accepted")
             /\ (/\ calls'[s].pc = "done" /\ calls'[t].pc = "done"
                 /\ \A u \in Slots \ {s, t} : calls'[u].pc = "idle")
                => (/\ calls'[s].outcome = "Ok" /\ calls'[t].outcome = "Ok"
                    /\ reqs'[calls[s].req].status = "accepted"
                    /\ reqs'[calls[t].req].status = "accepted"
                    /\ items'[calls[s].item].isLent
                    /\ items'[calls[s].item] \in {calls[s].doc, calls[t].doc})]_vars

(* Both accepts have answered Ok, the requests of u2 and u3 are both       *)
(* accepted, and the item is lent to one of the two                        *)
DoubleLoanWitness ==
    \E s, t \in Slots :
       /\ CompetingAccepts(s, t)
       /\ calls[s].pc = "done" /\ calls[t].pc = "done"
       /\ calls[s].outcome = "Ok" /\ calls[t].outcome = "Ok"
       /\ reqs[calls[s].req].status = "accepted"
       /\ reqs[calls[t].req].status = "accepted"
       /\ reqs[calls[s].req].borrowerId # reqs[calls[t].req].borrowerId
       /\ items[calls[s].item].isLent
       /\ items[calls[s].item].borrower = reqs[calls[s].req].borrowerId
       /\ items[calls[s].item].dueAt = reqs[calls[s].req].dueAt

(* A respond(accepted = true) call that stopped between its write of the   *)
(* item and its write of the status                                        *)
StoppedBeforeStatus(c) ==
    /\ c.op = "respond" /\ c.accepted
    /\ c.pc = "abandoned" /\ c.detail = "writeStatus"

(* C23: the item write and the status write of respond(accepted = true)    *)
(* are separate steps and nothing is rolled back: the item write lends the *)
(* item to the request's borrower and leaves the request as it was, a call *)
(* that stops leaves the items and the requests as they are, and a second  *)
(* accept of the request of a call that stopped before its status write,   *)
(* while the item is still as that call wrote it, ends with Conflict.      *)
NoRollbackOfTheItemWrite ==
    [][\A s \in Slots :
          LET c == calls[s]
          IN /\ (c.op = "respond" /\ c.pc = "writeItem"
                 /\ calls'[s].pc = "writeStatus")
                => (/\ items'[c.item].isLent
                    /\ items'[c.item].borrower = c.rq.borrowerId
                    /\ reqs' = reqs)
             /\ (c.pc # "abandoned" /\ calls'[s].pc = "abandoned")
                => (items' = items /\ reqs' = reqs)
             /\ \A t \in Slots \ {s} :
                   (/\ StoppedBeforeStatus(c)
                    /\ calls[t].op = "respond" /\ calls[t].accepted
                    /\ calls[t].req = c.req
                    /\ calls[t].pc = "readItem" /\ calls'[t].pc # "readItem"
                    /\ calls'[t].pc # "abandoned"
                    /\ items[c.item] = c.doc)
                   => (/\ calls'[t].pc = "done"
                       /\ calls'[t].outcome = "Conflict"
                       /\ calls'[t].detail = "Item already loaned."
                       /\ items' = items /\ reqs' = reqs)]_vars

(* A call stopped before its status write: the item is lent to the         *)
(* borrower of the request, the request is pending, and the second accept  *)
(* of it was answered Conflict                                             *)
NoRollbackWitness ==
    \E s, t \in Slots :
       /\ s # t
       /\ StoppedBeforeStatus(calls[s])
       /\ reqs[calls[s].req].status = "pending"
       /\ items[calls[s].item].isLent
       /\ items[calls[s].item].borrower = reqs[calls[s].req].borrowerId
       /\ calls[t].op = "respond" /\ calls[t].accepted
       /\ calls[t].req = calls[s].req
       /\ calls[t].pc = "done" /\ calls[t].outcome = "Conflict"

(* C24: under any interleaving of borrow and respond(accepted = true)      *)
(* calls, the write of a call never replaces the borrower of an item that  *)
(* is lent at that moment by another borrower.                             *)
BorrowerIsNeverReplaced ==
    [][\A s \in Slots :
          (/\ calls[s].op \in {"borrow", "respond"}
           /\ calls[s].pc = "writeItem" /\ calls'[s].pc \in {"writeStatus", "done"}
           /\ items[calls[s].item].exists /\ items[calls[s].item].isLent)
          => items'[calls[s].item].borrower = items[calls[s].item].borrower]_vars

(* A respond call that has answered Ok *)
RespondedOk(c) == c.op = "respond" /\ c.pc = "done" /\ c.outcome = "Ok"

(* C25: of the respond calls on one request at most one answers Ok, and    *)
(* the status of the request is the one that call reported.                *)
OneRespondSucceeds ==
    \A s \in Slots :
       RespondedOk(calls[s]) =>
          /\ \A t \in Slots \ {s} :
                RespondedOk(calls[t]) => calls[t].req # calls[s].req
          /\ reqs[calls[s].req].status = calls[s].detail

(* C26: an item that is absent comes into the store only by a create.      *)
DeletedItemStaysAbsent ==
    [][\A i \in ItemIds :
          (~items[i].exists /\ items'[i].exists)
          => \E s \in Slots : /\ calls[s].pc = "idle"
                              /\ calls'[s].op = "create"
                              /\ calls'[s].item = i]_vars

(* C27: in respond(accepted = true) the item write precedes the status     *)
(* write. A request becomes accepted only by the status write of an        *)
(* accepting call; that call comes to its status write only from its item  *)
(* write, which leaves the item of the request lent to the request's       *)
(* borrower with the request's dueAt; and it comes to its item write only  *)
(* from a read that found the item present and not lent.                   *)
ItemWritePrecedesStatusWrite ==
    [][/\ \A r \in 1..Len(reqs) :
             (reqs[r].status # "accepted" /\ reqs'[r].status = "accepted")
             => \E s \in Slots : /\ calls[s].op = "respond" /\ calls[s].accepted
                                 /\ calls[s].req = r
                                 /\ calls[s].pc = "writeStatus"
                                 /\ calls'[s].pc = "done"
       /\ \A s \in Slots :
             (/\ calls'[s].op = "respond" /\ calls'[s].accepted
              /\ calls[s].pc # "writeStatus" /\ calls'[s].pc = "writeStatus")
             => (/\ calls[s].pc = "writeItem"
                 /\ calls[s].item = reqs[calls[s].req].itemId
                 /\ items'[calls[s].item].exists
                 /\ items'[calls[s].item].isLent
                 /\ items'[calls[s].item].borrower = reqs[calls[s].req].borrowerId
                 /\ items'[calls[s].item].dueAt = reqs[calls[s].req].dueAt)
       /\ \A s \in Slots :
             (/\ calls'[s].op = "respond"
              /\ calls[s].pc # "writeItem" /\ calls'[s].pc = "writeItem")
             => (/\ calls[s].pc = "readItem"
                 /\ items[calls'[s].item].exists
                 /\ ~items[calls'[s].item].isLent)]_vars

(* An accept has answered Ok: the request is accepted and the item is lent *)
(* to its borrower until its dueAt                                         *)
AcceptedAfterItemWrite ==
    \E s \in Slots :
       /\ RespondedOk(calls[s]) /\ calls[s].accepted
       /\ reqs[calls[s].req].status = "accepted"
       /\ items[calls[s].item].isLent
       /\ items[calls[s].item].borrower = reqs[calls[s].req].borrowerId
       /\ items[calls[s].item].dueAt = reqs[calls[s].req].dueAt
       /\ \A t \in Slots \ {s} : calls[t].pc = "idle"

(* The page was told that the accept of request r was refused because the *)
(* item was lent                                                           *)
RefusalNoted(r) ==
    /\ calls[1].pc = "done" /\ calls[1].op = "respond" /\ calls[1].accepted
    /\ calls[1].req = r /\ calls[1].outcome = "Conflict"
    /\ calls[1].detail = "Item already loaned."

(* C28: a request whose accept was refused with Conflict stays pending,    *)
(* and is still respondable: a later respond(accepted = true) on it, made  *)
(* while it is pending and its item is present and not lent, answers Ok,   *)
(* lends the item to the request's borrower with the request's dueAt, and  *)
(* marks that same request accepted; no request is added.                  *)
RefusedAcceptCanBeRetried ==
    [][/\ (/\ last.op = "respond" /\ last.accepted
           /\ last.outcome = "Conflict" /\ last.detail = "Item already loaned."
           /\ last' = NoCall)
          => (/\ calls'[1].pc = "done" /\ calls'[1].op = "respond"
              /\ calls'[1].accepted /\ calls'[1].req = last.req
              /\ calls'[1].outcome = "Conflict"
              /\ calls'[1].detail = "Item already loaned."
              /\ reqs'[last.req].status = "pending"
              /\ reqs' = reqs /\ items' = items)
       /\ (/\ Answered("respond") /\ last'.accepted
           /\ RefusalNoted(last'.req)
           /\ reqs[last'.req].status = "pending"
           /\ items[reqs[last'.req].itemId].exists
           /\ ~items[reqs[last'.req].itemId].isLent)
          => (/\ last'.outcome = "Ok"
              /\ reqs' = [reqs EXCEPT ![last'.req].status = "accepted"]
              /\ items'[reqs[last'.req].itemId].isLent
              /\ items'[reqs[last'.req].itemId].borrower
                    = reqs[last'.req].borrowerId
              /\ items'[reqs[last'.req].itemId].dueAt
                    = reqs[last'.req].dueAt)]_vars

(* The accept of a request was refused while the item was lent; after the  *)
(* return the second accept of the same request answered Ok                *)
RetriedAcceptWitness ==
    /\ last.op = "respond" /\ last.accepted /\ last.outcome = "Ok"
    /\ RefusalNoted(last.req)
    /\ last.before.exists /\ ~last.before.isLent
    /\ reqs[last.req].status = "accepted"
    /\ items[reqs[last.req].itemId].isLent
    /\ items[reqs[last.req].itemId].borrower = reqs[last.req].borrowerId
    /\ items[reqs[last.req].itemId].dueAt = reqs[last.req].dueAt

(* C29: a borrow, submitRequest or respond call that answers BadRequest,   *)
(* NotFound or Conflict has written nothing: the items and the requests    *)
(* are as they were before the call.                                       *)
RefusedCallsWriteNothing ==
    [][(/\ last' # NoCall
        /\ last'.op \in {"borrow", "submitRequest", "respond"}
        /\ last'.outcome \in {"BadRequest", "NotFound", "Conflict"})
       => (items' = items /\ reqs' = reqs)]_vars

(* A request for a lent item was refused with Conflict; the item is as the *)
(* call found it and the requests made before are all there is             *)
RefusedSubmitWitness ==
    /\ last.op = "submitRequest" /\ last.outcome = "Conflict"
    /\ last.before.exists /\ last.before.isLent
    /\ items[last.item] = last.before
    /\ Len(reqs) = 1 /\ reqs[1].itemId = last.item
    /\ reqs[1].borrowerId # last.borrower

(* C30: every stored item has a non-empty owner: a create with a blank     *)
(* ownerId is answered BadRequest, and no submitRequest is answered        *)
(* "Item has no owner.".                                                   *)
EveryItemHasAnOwner ==
    /\ \A i \in ItemIds :
          items[i].exists => ~IsNullOrWhiteSpace(OwnerIdOf(items[i]))
    /\ (last.op = "create" /\ IsNullOrWhiteSpace(last.body.ownerId))
          => last.outcome = "BadRequest"
    /\ last.detail # "Item has no owner."

(* A PUT with a blank ownerId has changed the name of the item and left    *)
(* its owner                                                               *)
BlankOwnerUpdateWitness ==
    /\ last.op = "update" /\ last.outcome = "NoContent"
    /\ IsNullOrWhiteSpace(last.body.ownerId)
    /\ items[last.item].name = last.body.name
    /\ items[last.item].name # last.before.name
    /\ items[last.item].owner = last.before.owner
    /\ ~IsNullOrWhiteSpace(OwnerIdOf(items[last.item]))

====
